---- MODULE Spec2Model ----
(***************************************************************************)
(* Model of the SOCS calendar retrieval library: the tolerant parser       *)
(* (src/src/parser.rs), the EventTime ordering (src/src/models.rs) and the *)
(* pagination loop fetch_events_recursive (src/src/lib.rs).                *)
(*                                                                         *)
(* Strings are sequences of one-character strings, so that trimming,       *)
(* splitting and numeric parsing are computed as the code computes them.   *)
(* A Result is a record [ok |-> TRUE, val |-> v] or [ok |-> FALSE,         *)
(* err |-> e].                                                             *)
(***************************************************************************)
EXTENDS Integers, Sequences, FiniteSets, TLC

\* The element of a singleton set.  Only({ body : x \in {v} }) is body with x
\* bound to the value of v, which is computed once (`let x = v; body`).
Only(S) == CHOOSE r \in S : TRUE

Ok(v) == [ok |-> TRUE, val |-> v]
Err(e) == [ok |-> FALSE, err |-> e]

(***************************************************************************)
(* String helpers (std::str).                                              *)
(***************************************************************************)
Digits == <<"0", "1", "2", "3", "4", "5", "6", "7", "8", "9">>

IsDigit(c) == \E i \in 1..Len(Digits) : Digits[i] = c

DigitVal(c) == (CHOOSE i \in 1..Len(Digits) : Digits[i] = c) - 1

IsSpace(c) == c = " "

RECURSIVE TrimStart(_)
TrimStart(s) ==
  IF s # <<>> /\ IsSpace(Head(s)) THEN TrimStart(Tail(s)) ELSE s

RECURSIVE TrimEnd(_)
TrimEnd(s) ==
  IF s # <<>> /\ IsSpace(s[Len(s)]) THEN TrimEnd(SubSeq(s, 1, Len(s) - 1)) ELSE s

Trim(s) == TrimEnd(TrimStart(s))

\* str::split(sep): the pieces between separators, empty pieces included.
RECURSIVE SplitFrom(_, _, _)
SplitFrom(s, sep, cur) ==
  IF s = <<>> THEN <<cur>>
  ELSE IF Head(s) = sep THEN <<cur>> \o SplitFrom(Tail(s), sep, <<>>)
  ELSE SplitFrom(Tail(s), sep, Append(cur, Head(s)))

Split(s, sep) == SplitFrom(s, sep, <<>>)

ToAsciiLower(c) ==
  CASE c = "A" -> "a" [] c = "L" -> "l" [] c = "D" -> "d" [] c = "Y" -> "y"
    [] OTHER -> c

EqIgnoreAsciiCase(s, t) ==
  /\ Len(s) = Len(t)
  /\ \A i \in 1..Len(s) : ToAsciiLower(s[i]) = ToAsciiLower(t[i])

RECURSIVE DigitsValue(_, _)
DigitsValue(s, acc) ==
  IF s = <<>> THEN acc ELSE DigitsValue(Tail(s), acc * 10 + DigitVal(Head(s)))

\* <u32 as FromStr>::from_str and <i32 as FromStr>::from_str on short inputs:
\* an optional sign, then one or more digits and nothing else.
ParseInt(s, signed) ==
  Only({ IF body # <<>> /\ \A i \in 1..Len(body) : IsDigit(body[i])
           THEN Ok(IF signed /\ Head(s) = "-" THEN 0 - DigitsValue(body, 0)
                   ELSE DigitsValue(body, 0))
           ELSE Err("ParseIntError")
         : body \in { IF s # <<>> /\ (Head(s) = "+" \/ (signed /\ Head(s) = "-"))
                        THEN Tail(s) ELSE s } })

(***************************************************************************)
(* chrono::NaiveDate and chrono::NaiveTime as the parser uses them.        *)
(***************************************************************************)
IsLeapYear(y) == (y % 4 = 0 /\ y % 100 # 0) \/ y % 400 = 0

DaysInMonth(y, m) ==
  IF m = 2 THEN (IF IsLeapYear(y) THEN 29 ELSE 28)
  ELSE IF m \in {4, 6, 9, 11} THEN 30 ELSE 31

\* NaiveDate::from_ymd_opt
from_ymd_opt(y, m, d) ==
  IF m \in 1..12 /\ d >= 1 /\ d <= DaysInMonth(y, m)
    THEN Ok([year |-> y, month |-> m, day |-> d])
    ELSE Err("None")

\* Ord for NaiveDate: -1, 0 or 1.
DateCmp(a, b) ==
  IF a.year # b.year THEN (IF a.year < b.year THEN -1 ELSE 1)
  ELSE IF a.month # b.month THEN (IF a.month < b.month THEN -1 ELSE 1)
  ELSE IF a.day # b.day THEN (IF a.day < b.day THEN -1 ELSE 1)
  ELSE 0

\* A numeric item of a chrono format string: leading white space is skipped,
\* then between one and `width` digits are taken.  The result is the value
\* and the rest of the input, or an error when no digit is found.
ScanNumber(s, width) ==
  Only({ Only({ IF n = 0 THEN Err("Invalid")
                ELSE Ok([value |-> DigitsValue(SubSeq(t, 1, n), 0),
                         rest |-> SubSeq(t, n + 1, Len(t))])
                : n \in { IF Len(t) >= 2 /\ width >= 2 /\ IsDigit(t[1]) /\ IsDigit(t[2])
                            THEN 2
                          ELSE IF Len(t) >= 1 /\ IsDigit(t[1]) THEN 1 ELSE 0 } })
         : t \in {TrimStart(s)} })

\* NaiveTime::parse_from_str(s, "%H:%M"); a NaiveTime of minute resolution is
\* the number of minutes since midnight.
ParseMinute(hour, s) ==
  Only({ IF ~m.ok THEN Err("Invalid")
         ELSE IF m.val.value > 59 THEN Err("OutOfRange")
         ELSE IF m.val.rest # <<>> THEN Err("TooLong")
         ELSE Ok(hour * 60 + m.val.value)
         : m \in {ScanNumber(s, 2)} })

ParseTimeHM(s) ==
  Only({ IF ~h.ok THEN Err("Invalid")
         ELSE IF h.val.value > 23 THEN Err("OutOfRange")
         ELSE IF h.val.rest = <<>> THEN Err("TooShort")
         ELSE IF Head(h.val.rest) # ":" THEN Err("Invalid")
         ELSE ParseMinute(h.val.value, Tail(h.val.rest))
         : h \in {ScanNumber(s, 2)} })

\* Variant: the hour is added without wrapping at midnight.
AddOneHourNoWrap(t) == t + 60

\* NaiveTime::overflowing_add_signed(Duration::hours(1)).0
AddOneHourWrapping(t) == (t + 60) % 1440

(***************************************************************************)
(* EventTime (models.rs).                                                  *)
(***************************************************************************)
AllDay(d) == [tag |-> "AllDay", date |-> d]
Specific(d, t) == [tag |-> "Specific", date |-> d, time |-> t]

EventTimeDate(e) == e.date

is_all_day(e) == e.tag = "AllDay"

VariantIndex(e) == IF e.tag = "AllDay" THEN 0 ELSE 1

\* #[derive(PartialOrd, Ord)] on the enum: the variants compare by their
\* declaration order first, and two values of the same variant by their
\* fields in order.
EventTimeCmp(a, b) ==
  IF VariantIndex(a) # VariantIndex(b)
    THEN (IF VariantIndex(a) < VariantIndex(b) THEN -1 ELSE 1)
  ELSE IF DateCmp(a.date, b.date) # 0 THEN DateCmp(a.date, b.date)
  ELSE IF is_all_day(a) THEN 0
  ELSE IF a.time # b.time THEN (IF a.time < b.time THEN -1 ELSE 1)
  ELSE 0

(***************************************************************************)
(* parser.rs                                                               *)
(***************************************************************************)
parse_date(date_str) ==
  Only({ IF Len(parts) # 3 THEN Err(<<"Invalid date format", date_str>>)
         ELSE Only({ IF ~day.ok THEN Err(<<"Invalid day", parts[1]>>)
                     ELSE IF ~month.ok THEN Err(<<"Invalid month", parts[2]>>)
                     ELSE IF ~year.ok THEN Err(<<"Invalid year", parts[3]>>)
                     ELSE Only({ IF d.ok THEN d
                                 ELSE Err(<<"Invalid date", day.val, month.val, year.val>>)
                                 : d \in {from_ymd_opt(year.val, month.val, day.val)} })
                     : day \in {ParseInt(parts[1], FALSE)},
                       month \in {ParseInt(parts[2], FALSE)},
                       year \in {ParseInt(parts[3], TRUE)} })
         : parts \in {Split(date_str, "/")} })

AllDayLiteral == <<"a", "l", "l", " ", "d", "a", "y">>

parse_event_time(date, time_str) ==
  Only({ IF EqIgnoreAsciiCase(s, AllDayLiteral) \/ s = <<>> THEN Ok(AllDay(date))
         ELSE Only({ IF t.ok THEN Ok(Specific(date, t.val))
                     ELSE Err(<<"Failed to parse time", s>>)
                     : t \in {ParseTimeHM(s)} })
         : s \in {Trim(time_str)} })

\* Option<String>
None == [some |-> FALSE]
Some(s) == [some |-> TRUE, val |-> s]

\* The end of an event whose start, start and end dates are already parsed
\* (parse_event, the `let end = ...` expression).
DeriveEnd(start, end_day, end_time) ==
  IF end_time.some
    THEN IF Trim(end_time.val) # <<>>
           THEN Only({ IF e.ok THEN e
                       ELSE Err(<<"Failed to parse end time", end_time.val>>)
                       : e \in {parse_event_time(end_day, end_time.val)} })
         ELSE IF is_all_day(start) THEN Ok(AllDay(end_day))
         ELSE Ok(Specific(end_day, AddOneHourWrapping(start.time)))
  ELSE IF is_all_day(start) THEN Ok(AllDay(end_day))
  ELSE Ok(start)

RECURSIVE TrimNonEmpty(_)
TrimNonEmpty(pieces) ==
  IF pieces = <<>> THEN <<>>
  ELSE Only({ IF p = <<>> THEN <<>> ELSE <<p>> : p \in {Trim(Head(pieces))} })
         \o TrimNonEmpty(Tail(pieces))

ParseCategories(category) == TrimNonEmpty(Split(category, ","))

BuildEvent(event, start, end_day) ==
  Only({ IF ~end.ok THEN end
         ELSE Ok([event_id |-> event.event_id,
                  title |-> event.title,
                  description |-> event.description,
                  location |-> event.location,
                  categories |-> ParseCategories(event.category),
                  start |-> start,
                  end |-> end.val])
         : end \in {DeriveEnd(start, end_day, event.end_time)} })

parse_event(event) ==
  Only({ IF ~start_day.ok
           THEN Err(<<"Failed to parse start date", event.start_date>>)
         ELSE IF ~end_day.ok
           THEN Err(<<"Failed to parse end date", event.end_date>>)
         ELSE Only({ IF ~start.ok
                       THEN Err(<<"Failed to parse start time", event.start_time>>)
                     ELSE BuildEvent(event, start.val, end_day.val)
                     : start \in {parse_event_time(start_day.val, event.start_time)} })
         : start_day \in {parse_date(event.start_date)},
           end_day \in {parse_date(event.end_date)} })

\* Variant: a record that fails is skipped instead of failing the parse.
RECURSIVE CollectEventsSkipBad(_)
CollectEventsSkipBad(records) ==
  IF records = <<>> THEN Ok(<<>>)
  ELSE Only({ IF ~h.ok THEN t ELSE Ok(<<h.val>> \o t.val)
              : h \in {parse_event(Head(records))},
                t \in {CollectEventsSkipBad(Tail(records))} })

\* Iterator::collect::<Result<Vec<_>>>(): the events in order, or the first
\* error met.
RECURSIVE CollectEvents(_)
CollectEvents(records) ==
  IF records = <<>> THEN Ok(<<>>)
  ELSE Only({ IF ~h.ok THEN h
              ELSE Only({ IF ~t.ok THEN t ELSE Ok(<<h.val>> \o t.val)
                          : t \in {CollectEvents(Tail(records))} })
              : h \in {parse_event(Head(records))} })

\* A response body is a document: well formed with a sequence of
\* CalendarEvent records, or not well formed.
parse_calendar_xml(xml) ==
  IF ~xml.wf THEN Err(<<"Failed to parse XML calendar data">>)
  ELSE CollectEvents(xml.events)

(***************************************************************************)
(* Vec<CalendarEvent> operations used by fetch_events_recursive (lib.rs).  *)
(***************************************************************************)
\* Ord for String restricted to the characters event identifiers use here:
\* lexicographic on the bytes.
RECURSIVE StrCmp(_, _)
StrCmp(a, b) ==
  IF a = <<>> /\ b = <<>> THEN 0
  ELSE IF a = <<>> THEN -1
  ELSE IF b = <<>> THEN 1
  ELSE IF Head(a) # Head(b)
    THEN (IF DigitVal(Head(a)) < DigitVal(Head(b)) THEN -1 ELSE 1)
  ELSE StrCmp(Tail(a), Tail(b))

CmpById(a, b) == StrCmp(a.event_id, b.event_id)

CmpByStart(a, b) == EventTimeCmp(a.start, b.start)

\* The closure passed to sort_by: "event_id" is lib.rs:84, "start" lib.rs:88.
Compare(key, a, b) == IF key = "event_id" THEN CmpById(a, b) ELSE CmpByStart(a, b)

\* slice::sort_by is a stable sort: an element comes after the elements that
\* compare less than it and after the earlier elements that compare equal.
sort_by(vec, key) ==
  Only({ [r \in 1..Len(s) |->
            s[CHOOSE i \in 1..Len(s) :
                r = 1 + Cardinality({ j \in 1..Len(s) :
                          \/ Compare(key, s[j], s[i]) = -1
                          \/ Compare(key, s[j], s[i]) = 0 /\ j < i })]]
         : s \in {vec} })

\* Vec::dedup_by(|a, b| a.event_id == b.event_id): an element is removed when
\* it has the identifier of the element retained just before it.
RECURSIVE DedupFrom(_, _)
DedupFrom(s, kept) ==
  IF s = <<>> THEN kept
  ELSE IF kept # <<>> /\ Head(s).event_id = kept[Len(kept)].event_id
    THEN DedupFrom(Tail(s), kept)
  ELSE DedupFrom(Tail(s), Append(kept, Head(s)))

\* Variant: the later element of two with one identifier is retained.
RECURSIVE DedupFromKeepLast(_, _)
DedupFromKeepLast(s, kept) ==
  IF s = <<>> THEN kept
  ELSE IF kept # <<>> /\ Head(s).event_id = kept[Len(kept)].event_id
    THEN DedupFromKeepLast(Tail(s), Append(SubSeq(kept, 1, Len(kept) - 1), Head(s)))
  ELSE DedupFromKeepLast(Tail(s), Append(kept, Head(s)))

dedup_by_keep_last(vec) == Only({ DedupFromKeepLast(s, <<>>) : s \in {vec} })

dedup_by(vec) == Only({ DedupFrom(s, <<>>) : s \in {vec} })

\* Variant: the accumulator is not sorted by identifier before dedup_by.
FinalizeWithoutIdSort(all) == sort_by(dedup_by(all), "start")

\* lib.rs, after the loop: deduplicate by identifier, then sort by start.
Finalize(all) == sort_by(dedup_by(sort_by(all, "event_id")), "start")

(***************************************************************************)
(* The feed: the documents a fetch may return, and the caller's inputs.    *)
(***************************************************************************)
MaxBatch == 2
MaxFetches == 2

Day1Str == <<"3", "0", "/", "1", "1", "/", "2", "0", "2", "5">>
Day2Str == <<"0", "1", "/", "1", "2", "/", "2", "0", "2", "5">>
BadDayStr == <<"3", "1", "/", "1", "1", "/", "2", "0", "2", "5">>

Day1 == [year |-> 2025, month |-> 11, day |-> 30]
Day2 == [year |-> 2025, month |-> 12, day |-> 1]
Day3 == [year |-> 2026, month |-> 1, day |-> 2]

RawRecord(id, date, time, end_time, title) ==
  [event_id |-> id, start_date |-> date, end_date |-> date, start_time |-> time,
   end_time |-> end_time, title |-> title, description |-> None,
   location |-> "hall", category |-> <<"A", ",", " ", "B">>]

FeedRecords ==
  { RawRecord(<<"1">>, Day2Str, <<"A", "l", "l", " ", "D", "a", "y">>, None, "a"),
    RawRecord(<<"1">>, Day1Str, <<"2", "3", ":", "3", "0">>, Some(<<>>), "b"),
    RawRecord(<<"1", "0">>, Day1Str, <<"0", "9", ":", "0", "0">>, None, "c"),
    RawRecord(<<"2">>, BadDayStr, <<>>, None, "x") }

SeqsUpTo(S, n) == UNION { [1..k -> S] : k \in 0..n }

FeedDocs ==
  {[wf |-> FALSE]} \cup
  { [wf |-> TRUE, events |-> s] : s \in SeqsUpTo(FeedRecords, MaxBatch) }

\* fetch_calendar's failures (client.rs): the request cannot complete, the
\* status is not a success, the body cannot be read.
FetchErrors ==
  { <<"Failed to fetch calendar data">>,
    <<"HTTP request failed with status">>,
    <<"Failed to read response body">> }

BaseUrls == {"https://feed/?ID=1&key=k"}
\* parse_calendar_xml on each document the feed can serve.
Parsed == [doc \in FeedDocs |-> parse_calendar_xml(doc)]

StartDates == {Day1, Day2}
EndDates == {Day1, Day2, Day3}

(***************************************************************************)
(* fetch_events_recursive as a state machine.  The await of fetch_calendar *)
(* is the only suspension point: Fetch issues the request, and one of the  *)
(* Resume actions runs the rest of the iteration on the response.          *)
(***************************************************************************)
VARIABLES
  base_url, start_date, end_date,  \* the arguments of the call
  pc,             \* "fetch", "await", "parse" or "done"
  current_start,
  all_events,
  xml_data,       \* the body last received
  result,         \* the value returned, once pc = "done"
  requests,       \* history: the requests issued, in order
  responses,      \* history: per iteration, the parsed batch or the error
  stalls          \* history: the batches that did not advance current_start

vars == <<base_url, start_date, end_date, pc, current_start, all_events,
          xml_data, result, requests, responses, stalls>>

NoResult == [ok |-> FALSE, err |-> <<"pending">>]
NoBody == [wf |-> FALSE]

Init ==
  /\ base_url \in BaseUrls
  /\ start_date \in StartDates
  /\ end_date \in EndDates
  /\ pc = "fetch"
  /\ current_start = start_date
  /\ all_events = <<>>
  /\ xml_data = NoBody
  /\ result = NoResult
  /\ requests = <<>>
  /\ responses = <<>>
  /\ stalls = 0

Args == <<base_url, start_date, end_date>>

\* lib.rs line 59: fetch_calendar(base_url, current_start, end_date) is called.
Issue ==
  /\ pc = "fetch"
  /\ requests' = Append(requests,
        [base_url |-> base_url, start |-> current_start, end |-> end_date])
  /\ pc' = "await"
  /\ UNCHANGED <<Args, current_start, all_events, xml_data, result, responses,
                 stalls>>

Fetch ==
  /\ Len(requests) < MaxFetches
  /\ Issue

Return(r) ==
  /\ result' = r
  /\ pc' = "done"

\* fetch_calendar(...).await? fails: the error is returned.
ResumeFetchFailed(e) ==
  /\ pc = "await"
  /\ responses' = Append(responses, Err(e))
  /\ Return(Err(e))
  /\ UNCHANGED <<Args, current_start, all_events, xml_data, requests, stalls>>

\* Variant: a parse failure ends the loop and the accumulator is returned.
ResumeParseFailedPartial(doc) ==
  /\ pc = "await"
  /\ \E events \in {Parsed[doc]} :
       /\ ~events.ok
       /\ responses' = Append(responses, events)
       /\ Return(Ok(Finalize(all_events)))
  /\ xml_data' = doc
  /\ UNCHANGED <<Args, current_start, all_events, requests, stalls>>

\* parse_calendar_xml(events)? fails: the error is returned.
ResumeParseFailed(doc) ==
  /\ pc = "await"
  /\ \E events \in {Parsed[doc]} :
       /\ ~events.ok
       /\ responses' = Append(responses, events)
       /\ Return(events)
  /\ xml_data' = doc
  /\ UNCHANGED <<Args, current_start, all_events, requests, stalls>>

\* Variant: without the is_empty test, events.last() is None on an empty
\* batch and the context error is returned.
ResumeEmptyAsError(doc) ==
  /\ pc = "await"
  /\ \E events \in {Parsed[doc]} :
       /\ events.ok
       /\ events.val = <<>>
       /\ responses' = Append(responses, events)
       /\ Return(Err(<<"Failed to get last date">>))
  /\ xml_data' = doc
  /\ UNCHANGED <<Args, current_start, all_events, requests, stalls>>

\* events.is_empty(): break, then deduplicate, sort and return.
ResumeEmpty(doc) ==
  /\ pc = "await"
  /\ \E events \in {Parsed[doc]} :
       /\ events.ok
       /\ events.val = <<>>
       /\ responses' = Append(responses, events)
       /\ Return(Ok(Finalize(all_events)))
  /\ xml_data' = doc
  /\ UNCHANGED <<Args, current_start, all_events, requests, stalls>>

\* events.last().map(|e| e.start.date())
LastEventDate(events) == EventTimeDate(events[Len(events)].start)

\* Variant: last_event_date > end_date
ReachedEndStrict(last_event_date, end) == DateCmp(last_event_date, end) = 1

\* last_event_date >= end_date
ReachedEnd(last_event_date, end) == DateCmp(last_event_date, end) >= 0

\* A non-empty batch whose last event reaches end_date: extend, break, then
\* deduplicate, sort and return.
ResumeLast(doc) ==
  /\ pc = "await"
  /\ \E events \in {Parsed[doc]} :
       /\ events.ok
       /\ events.val # <<>>
       /\ ReachedEnd(LastEventDate(events.val), end_date)
       /\ all_events' = all_events \o events.val
       /\ responses' = Append(responses, events)
       /\ Return(Ok(Finalize(all_events')))
  /\ xml_data' = doc
  /\ UNCHANGED <<Args, current_start, requests, stalls>>

\* Variant: current_start is not moved.
ResumeMoreKeepStart(doc) ==
  /\ pc = "await"
  /\ \E events \in {Parsed[doc]} :
       /\ events.ok
       /\ events.val # <<>>
       /\ ~ReachedEnd(LastEventDate(events.val), end_date)
       /\ all_events' = all_events \o events.val
       /\ responses' = Append(responses, events)
       /\ stalls' = stalls + 1
  /\ xml_data' = doc
  /\ pc' = "fetch"
  /\ UNCHANGED <<Args, current_start, result, requests>>

\* A non-empty batch whose last event is before end_date: extend, move
\* current_start to that event's date and loop.
ResumeMore(doc) ==
  /\ pc = "await"
  /\ \E events \in {Parsed[doc]} :
       /\ events.ok
       /\ events.val # <<>>
       /\ ~ReachedEnd(LastEventDate(events.val), end_date)
       /\ all_events' = all_events \o events.val
       /\ responses' = Append(responses, events)
       /\ current_start' = LastEventDate(events.val)
  /\ stalls' = IF DateCmp(current_start', current_start) = 1 THEN stalls
               ELSE stalls + 1
  /\ xml_data' = doc
  /\ pc' = "fetch"
  /\ UNCHANGED <<Args, result, requests>>

Next ==
  \/ Fetch
  \/ \E e \in FetchErrors : ResumeFetchFailed(e)
  \/ \E doc \in FeedDocs : ResumeParseFailed(doc)
  \/ \E doc \in FeedDocs : ResumeEmpty(doc)
  \/ \E doc \in FeedDocs : ResumeLast(doc)
  \/ \E doc \in FeedDocs : ResumeMore(doc)

\* An arbitrary feed; the number of fetches is capped at MaxFetches.
Spec == Init /\ [][Next]_vars

(***************************************************************************)
(* A feed whose batches are never empty and whose last event's start date  *)
(* strictly increases from one fetch to the next until it reaches          *)
(* end_date.  The number of fetches is not capped.                         *)
(***************************************************************************)
FeedDates == {Day1, Day2}

Advancing(doc) ==
  \E events \in {Parsed[doc]} :
    /\ events.ok
    /\ events.val # <<>>
    /\ responses # <<>> =>
         DateCmp(LastEventDate(events.val),
                 LastEventDate(responses[Len(responses)].val)) = 1

AdvInit == Init /\ end_date \in FeedDates

AdvLast(doc) == pc = "await" /\ Advancing(doc) /\ ResumeLast(doc)

AdvMore(doc) == pc = "await" /\ Advancing(doc) /\ ResumeMore(doc)

AdvNext ==
  \/ Issue
  \/ \E doc \in FeedDocs : AdvLast(doc)
  \/ \E doc \in FeedDocs : AdvMore(doc)

AdvSpec == AdvInit /\ [][AdvNext]_vars /\ WF_vars(AdvNext)

(***************************************************************************)
(* An arbitrary feed that returns at most MaxStalls batches that do not    *)
(* advance current_start.  The number of fetches is not capped.            *)
(***************************************************************************)
MaxStalls == 1

\* Whether a batch advances current_start depends on its last event only:
\* the batches of this feed hold at most StallBatch events.
StallBatch == 1

StallDocs == { doc \in FeedDocs : doc.wf => Len(doc.events) <= StallBatch }

WithinStalls(doc) ==
  \/ stalls < MaxStalls
  \/ \E events \in {Parsed[doc]} :
       DateCmp(LastEventDate(events.val), current_start) = 1

StallMore(doc) == ResumeMore(doc) /\ WithinStalls(doc)

StallNext ==
  \/ Issue
  \/ \E e \in FetchErrors : ResumeFetchFailed(e)
  \/ \E doc \in StallDocs : ResumeParseFailed(doc)
  \/ \E doc \in StallDocs : ResumeEmpty(doc)
  \/ \E doc \in StallDocs : ResumeLast(doc)
  \/ \E doc \in StallDocs : StallMore(doc)

StallSpec == Init /\ [][StallNext]_vars /\ WF_vars(StallNext)

(***************************************************************************)
(* The parser alone: parse_calendar_xml applied to a document drawn from   *)
(* the records below.                                                      *)
(***************************************************************************)
MaxRecords == 2

Day3Str == <<"0", "2", "/", "0", "1", "/", "2", "0", "2", "6">>

ParseStartDates == {Day2Str, BadDayStr}
ParseStartTimes ==
  { <<"2", "3", ":", "3", "0">>,
    <<"a", "L", "L", " ", "d", "a", "y">>,
    <<"0", "8", ":", "7", "0">> }
ParseEndTimes ==
  { None, Some(<<>>), Some(<<" ">>), Some(<<"1", "0", ":", "1", "5">>),
    Some(<<"1", "x">>) }

ParseRecords ==
  { [event_id |-> <<"7">>, start_date |-> sd, end_date |-> Day3Str,
     start_time |-> st, end_time |-> et, title |-> "t", description |-> None,
     location |-> "", category |-> <<"A", ",", ",", " ", "C", " ">>] :
    sd \in ParseStartDates, st \in ParseStartTimes, et \in ParseEndTimes }

ParseDocs ==
  {[wf |-> FALSE]} \cup
  { [wf |-> TRUE, events |-> s] : s \in SeqsUpTo(ParseRecords, MaxRecords) }

ParseInit ==
  /\ base_url \in BaseUrls
  /\ start_date = Day1
  /\ end_date = Day1
  /\ pc = "parse"
  /\ current_start = start_date
  /\ all_events = <<>>
  /\ xml_data \in ParseDocs
  /\ result = NoResult
  /\ requests = <<>>
  /\ responses = <<>>
  /\ stalls = 0

ParseCalendar ==
  /\ pc = "parse"
  /\ Return(parse_calendar_xml(xml_data))
  /\ UNCHANGED <<Args, current_start, all_events, xml_data, requests,
                 responses, stalls>>

ParseNext == ParseCalendar

ParseSpec == ParseInit /\ [][ParseNext]_vars

(***************************************************************************)
(* Properties.                                                             *)
(***************************************************************************)
Done == pc = "done"
Succeeded == pc = "done" /\ result.ok

IdsOf(events) == { events[i].event_id : i \in 1..Len(events) }

\* The batches received so far, in order.
Batches == [i \in { j \in 1..Len(responses) : responses[j].ok } |-> responses[i].val]

FetchedIds == UNION { IdsOf(Batches[i]) : i \in DOMAIN Batches }

RECURSIVE Concat(_)
Concat(seqs) == IF seqs = <<>> THEN <<>> ELSE Head(seqs) \o Concat(Tail(seqs))

DateBefore(a, b) == DateCmp(a, b) = -1

\* C1: under a feed whose batches' last start date strictly increases until
\* it reaches end_date, the call terminates, and the identifiers of its result
\* are exactly the identifiers of the batches it fetched.
C1_TerminatesWithAllIds ==
  /\ <>Done
  /\ [](Done => result.ok /\ IdsOf(result.val) = FetchedIds)

C1_Witness ==
  /\ Succeeded
  /\ Len(responses) >= 2
  /\ Cardinality(IdsOf(result.val)) >= 2
  /\ Len(all_events) > Len(result.val)

\* C2: an empty batch is the last one: the call has returned successfully the
\* finalized accumulator of the batches before it, no fetch follows, and an
\* empty first batch gives an empty result after exactly one fetch.
C2_EmptyBatchEnds ==
  \A i \in 1..Len(responses) :
    responses[i].ok /\ responses[i].val = <<>> =>
      /\ i = Len(responses)
      /\ Len(requests) = i
      /\ Succeeded
      /\ all_events = Concat([j \in 1..(i - 1) |-> responses[j].val])
      /\ IdsOf(result.val) = IdsOf(all_events)
      /\ i = 1 => result.val = <<>>

C2_Witness ==
  /\ Succeeded
  /\ Len(requests) = 1
  /\ responses = <<Ok(<<>>)>>
  /\ result.val = <<>>

C2_WitnessLater ==
  /\ Succeeded
  /\ Len(responses) = 2
  /\ responses[2] = Ok(<<>>)
  /\ result.val # <<>>

\* C3: a successful result holds every fetched identifier exactly once.
C3_NoDuplicateIds ==
  Succeeded =>
    \A id \in IdsOf(all_events) :
      Cardinality({ i \in 1..Len(result.val) : result.val[i].event_id = id }) = 1

C3_Witness ==
  /\ Succeeded
  /\ Len(responses) = 2
  /\ \E i \in 1..Len(responses[1].val), j \in 1..Len(responses[2].val) :
       /\ responses[1].val[i].event_id = responses[2].val[j].event_id
       /\ responses[1].val[i].title # responses[2].val[j].title
  /\ \E i, j \in 1..Len(responses[1].val) :
       i # j /\ responses[1].val[i].event_id = responses[1].val[j].event_id

\* C4: in a successful result the start date of an event is not later than
\* the start date of the event after it.
C4_SortedByStartDate ==
  Succeeded =>
    \A i \in 1..(Len(result.val) - 1) :
      ~DateBefore(result.val[i + 1].start.date, result.val[i].start.date)

\* C6: a failed fetch or parse is the last response: the call has returned
\* that error, no fetch follows, and no event is returned.
C6_FailureAborts ==
  \A i \in 1..Len(responses) :
    ~responses[i].ok =>
      /\ i = Len(responses)
      /\ Len(requests) = i
      /\ Done
      /\ result = responses[i]
      /\ ~result.ok

C6_Witness ==
  /\ Done
  /\ ~result.ok
  /\ Len(responses) = 2
  /\ all_events # <<>>

\* C8: the first request is (start_date, end_date); the request after a
\* non-empty batch whose last event starts before end_date is (that event's
\* start date, end_date); the call returns after a non-empty batch exactly
\* when its last event starts on or after end_date; every request carries the
\* caller's base_url and end_date; a request is issued only after the
\* response to the previous one is processed.
C8_PaginationStep ==
  /\ requests # <<>> =>
       requests[1] = [base_url |-> base_url, start |-> start_date, end |-> end_date]
  /\ \A n \in 1..Len(requests) :
       requests[n].base_url = base_url /\ requests[n].end = end_date
  /\ Len(requests) = Len(responses) + (IF pc = "await" THEN 1 ELSE 0)
  /\ \A n \in 1..Len(responses) :
       responses[n].ok /\ responses[n].val # <<>> =>
         LET last_date == responses[n].val[Len(responses[n].val)].start.date
         IN IF DateBefore(last_date, end_date)
              THEN /\ n = Len(responses) =>
                        pc \in {"fetch", "await"} /\ current_start = last_date
                   /\ n < Len(requests) => requests[n + 1].start = last_date
              ELSE n = Len(responses) /\ Succeeded /\ Len(requests) = n

\* The last event of the first batch is not its latest, and the next request
\* starts on the last event's day.
C8_Witness ==
  /\ Len(requests) = 2
  /\ Len(responses[1].val) = 2
  /\ DateBefore(responses[1].val[2].start.date, responses[1].val[1].start.date)
  /\ requests[2].start = responses[1].val[2].start.date
  /\ requests[2].start # requests[1].start

\* C10: the copy of an identifier in a successful result is the first event
\* with that identifier in the accumulator.
C10_FirstAppendedKept ==
  Succeeded =>
    \A k \in 1..Len(result.val) :
      \E i \in 1..Len(all_events) :
        /\ all_events[i] = result.val[k]
        /\ \A j \in 1..(i - 1) : all_events[j].event_id # result.val[k].event_id

C10_Witness ==
  /\ Succeeded
  /\ \E i, j \in 1..Len(all_events) :
       /\ i < j
       /\ all_events[i].event_id = all_events[j].event_id
       /\ all_events[i] # all_events[j]
       /\ DateBefore(all_events[j].start.date, all_events[i].start.date)

\* C9: under a feed that returns at most MaxStalls batches that do not
\* advance current_start, the call terminates; and every request after the
\* first starts before end_date, later than the previous request when the
\* batch between them ended later than that request's start (progress), and
\* not later than it otherwise (a stall).
C9_ProgressOrStall ==
  /\ <>Done
  /\ [](\A n \in 1..(Len(requests) - 1) :
          LET prev == requests[n].start
              next == requests[n + 1].start
              last_date == responses[n].val[Len(responses[n].val)].start.date
          IN /\ DateBefore(next, end_date)
             /\ DateBefore(prev, last_date) => DateBefore(prev, next)
             /\ ~DateBefore(prev, last_date) => ~DateBefore(prev, next))

\* A stall that moves current_start back, then a batch that advances it.
C9_Witness ==
  /\ Len(requests) = 3
  /\ DateBefore(requests[2].start, requests[1].start)
  /\ DateBefore(requests[2].start, requests[3].start)

(***************************************************************************)
(* Properties of the parser, under ParseSpec.                              *)
(***************************************************************************)
Records == IF xml_data.wf THEN xml_data.events ELSE <<>>

HasSpecificStart(i) == result.val[i].start.tag = "Specific"

EndTimeAbsent(rec) == ~rec.end_time.some
EndTimeBlank(rec) == rec.end_time.some /\ Trim(rec.end_time.val) = <<>>

\* The end date of every record of ParseRecords (Day3Str).
ParseEndDay == Day3

PlusOneHour(i) ==
  [tag |-> "Specific", date |-> ParseEndDay,
   time |-> (result.val[i].start.time + 60) % 1440]

\* C5, as claimed: a record with a specific start and an end-time field that
\* is absent or blank gets the end date with the start time plus one hour,
\* modulo 24 hours.
C5_AbsentOrBlankPlusOneHour ==
  Succeeded =>
    \A i \in 1..Len(Records) :
      HasSpecificStart(i) /\ (EndTimeAbsent(Records[i]) \/ EndTimeBlank(Records[i]))
        => result.val[i].end = PlusOneHour(i)

\* C5, amended: a blank end-time field gives the end date with the start time
\* plus one hour, modulo 24 hours; an absent end-time field gives the start
\* itself (the start date and the start time).
C5_BlankPlusOneHourAbsentStart ==
  Succeeded =>
    \A i \in 1..Len(Records) :
      HasSpecificStart(i) =>
        /\ EndTimeBlank(Records[i]) => result.val[i].end = PlusOneHour(i)
        /\ EndTimeAbsent(Records[i]) => result.val[i].end = result.val[i].start

\* 23:30 with a blank end time gives 00:30 on the end date, and 23:30 with no
\* end time gives 23:30 on the start date.
C5_Witness ==
  /\ Succeeded
  /\ Len(Records) = 2
  /\ EndTimeBlank(Records[1])
  /\ result.val[1].start = [tag |-> "Specific", date |-> Day2, time |-> 1410]
  /\ result.val[1].end = [tag |-> "Specific", date |-> Day3, time |-> 30]
  /\ EndTimeAbsent(Records[2])
  /\ result.val[2].end = [tag |-> "Specific", date |-> Day2, time |-> 1410]

FailingRecords == { i \in 1..Len(Records) : ~parse_event(Records[i]).ok }

\* C7: the parse of a well-formed document is the events of its records in
\* document order when every record parses, and otherwise the error of the
\* first record that does not parse.
C7_AllOrNothingInOrder ==
  Done /\ xml_data.wf =>
    IF FailingRecords = {}
      THEN /\ result.ok
           /\ Len(result.val) = Len(Records)
           /\ \A i \in 1..Len(Records) : result.val[i] = parse_event(Records[i]).val
      ELSE LET first == CHOOSE i \in FailingRecords :
                          \A j \in FailingRecords : i <= j
           IN result = parse_event(Records[first]) /\ ~result.ok

\* Two failing records with different errors: the first one's is returned.
C7_Witness ==
  /\ Done
  /\ xml_data.wf
  /\ FailingRecords = {1, 2}
  /\ parse_event(Records[1]) # parse_event(Records[2])
  /\ result = parse_event(Records[1])

\* A record that parses followed by one that does not: no event is returned.
C7_WitnessLaterFailure ==
  /\ Done
  /\ xml_data.wf
  /\ FailingRecords = {2}
  /\ ~result.ok

\* Two different records that parse: both events, in document order.
C7_WitnessSuccess ==
  /\ Succeeded
  /\ Len(Records) = 2
  /\ Records[1] # Records[2]
  /\ result.val[1].end # result.val[2].end
====
